---- MODULE Spec2Model ----
(***************************************************************************)
(* Model of the AI Data Agent web client: the reducer-driven session and   *)
(* conversation state (contexts/AppContext.tsx), the upload flow           *)
(* (FileUpload.onDrop) and the query flow (Chat.handleSubmit).             *)
(*                                                                         *)
(* JavaScript runs every handler to its next await on one thread, and      *)
(* React applies the dispatches of a handler, in dispatch order, before    *)
(* the next event is delivered.  A handler is therefore written here as    *)
(* the sequence of calls it makes (its "program"), and one action runs     *)
(* the whole program against the state.                                    *)
(*                                                                         *)
(* Values: a text is a sequence of characters (one-character strings, or   *)
(* a literal kept as one chunk when no string operation looks inside it);  *)
(* an optional value (undefined / null / missing property) is <<>> and a   *)
(* present value v is <<v>>.                                               *)
(***************************************************************************)
EXTENDS Integers, Sequences, FiniteSets, TLC

(* ------------------------------ bounds --------------------------------- *)
MaxMessages == 4        \* longest message log explored
MaxClock    == 1        \* Date.now() readings explored: 0..MaxClock
MaxUploads  == 2        \* upload requests in flight explored
MaxQueries  == 2        \* query requests in flight explored
MaxInputLen == 1        \* longest text typed into the question field

(* --------------------------- optional values --------------------------- *)
None    == <<>>
Some(v) == <<v>>

\* JS truthiness of a string-or-undefined value: undefined and "" are falsy.
TruthyString(o) == o # None /\ o[1] # ""

\* JS truthiness of an object/array-or-undefined value: every object is truthy,
\* the empty array included.
TruthyObject(o) == o # None

\* JS truthiness of a text (a string held as a character sequence).
TruthyText(o) == o # None /\ o[1] # <<>>

(* -------------------------------- texts -------------------------------- *)
RECURSIVE TrimStart(_)
TrimStart(s) == IF s # <<>> /\ Head(s) = " " THEN TrimStart(Tail(s)) ELSE s

RECURSIVE TrimEnd(_)
TrimEnd(s) ==
    IF s # <<>> /\ s[Len(s)] = " " THEN TrimEnd(SubSeq(s, 1, Len(s) - 1)) ELSE s

\* String.prototype.trim
Trim(s) == TrimEnd(TrimStart(s))

LowerChar(c) ==
    CASE c = "B" -> "b" [] c = "A" -> "a" [] c = "R" -> "r"
      [] c = "P" -> "p" [] c = "I" -> "i" [] c = "E" -> "e"
      [] c = "L" -> "l" [] c = "N" -> "n" [] c = "H" -> "h"
      [] c = "C" -> "c" [] c = "T" -> "t"
      [] OTHER -> c

\* String.prototype.toLowerCase
ToLowerCase(s) == [i \in 1..Len(s) |-> LowerChar(s[i])]

\* `${v}` of a text-or-undefined value
Interpolate(o) == IF o = None THEN <<"undefined">> ELSE o[1]

RECURSIVE TextsUpTo(_)
TextsUpTo(n) ==
    IF n = 0 THEN {<<>>}
    ELSE LET shorter == TextsUpTo(n - 1)
         IN  shorter \cup {Append(t, c) : t \in shorter, c \in {" ", "q"}}

\* what the user can have in the question field: every short text, and one
\* question padded with blanks on both sides
InputTexts == TextsUpTo(MaxInputLen) \cup {<<" ", "q", " ">>}

(* ------------------------- the reducer's state ------------------------- *)
VARIABLES
    appState,       \* State.appState: "upload" | "loading" | "chat"
    uploadId,       \* State.uploadId: None (null) or Some(id)
    messages,       \* State.messages
    isProcessing,   \* State.isProcessing
    inputValue,     \* Chat's useState('') question field
    uploads,        \* POST /upload requests issued and not yet completed
    queries,        \* POST /query requests issued and not yet completed
    now,            \* the reading of Date.now()
    last            \* the handler that ran last and the calls it made

vars == <<appState, uploadId, messages, isProcessing, inputValue,
          uploads, queries, now, last>>

initialState ==
    [appState |-> "upload", uploadId |-> None, messages |-> <<>>,
     isProcessing |-> FALSE]

\* appReducer with ADD_MESSAGE putting the new message first
appReducerPrepend(state, action, clock) ==
    CASE action.type = "SET_STATE" ->
           [state EXCEPT !.appState = action.payload]
      [] action.type = "SET_UPLOAD_ID" ->
           [state EXCEPT !.uploadId = action.payload]
      [] action.type = "ADD_MESSAGE" ->
           [state EXCEPT !.messages =
               <<[type          |-> action.payload.type,
                  content       |-> action.payload.content,
                  visualization |-> action.payload.visualization,
                  id            |-> clock,
                  timestamp     |-> clock]>> \o state.messages]
      [] action.type = "SET_PROCESSING" ->
           [state EXCEPT !.isProcessing = action.payload]
      [] action.type = "CLEAR_MESSAGES" ->
           [state EXCEPT !.messages = <<>>]
      [] OTHER -> state

\* appReducer(state, action); clock is what Date.now() returns
appReducer(state, action, clock) ==
    CASE action.type = "SET_STATE" ->
           [state EXCEPT !.appState = action.payload]
      [] action.type = "SET_UPLOAD_ID" ->
           [state EXCEPT !.uploadId = action.payload]
      [] action.type = "ADD_MESSAGE" ->
           [state EXCEPT !.messages =
               Append(state.messages,
                      [type          |-> action.payload.type,
                       content       |-> action.payload.content,
                       visualization |-> action.payload.visualization,
                       id            |-> clock,
                       timestamp     |-> clock])]
      [] action.type = "SET_PROCESSING" ->
           [state EXCEPT !.isProcessing = action.payload]
      [] action.type = "CLEAR_MESSAGES" ->
           [state EXCEPT !.messages = <<>>]
      [] OTHER -> state

(* ------------------ the calls a handler can make ----------------------- *)
\* AppProvider's context value: each mutator dispatches one action
setState(newState)        == [op |-> "setState",
                              action |-> [type |-> "SET_STATE", payload |-> newState]]
setUploadId(id)           == [op |-> "setUploadId",
                              action |-> [type |-> "SET_UPLOAD_ID", payload |-> Some(id)]]
addMessage(message)       == [op |-> "addMessage",
                              action |-> [type |-> "ADD_MESSAGE", payload |-> message]]
setProcessing(processing) == [op |-> "setProcessing",
                              action |-> [type |-> "SET_PROCESSING", payload |-> processing]]
clearMessages             == [op |-> "clearMessages",
                              action |-> [type |-> "CLEAR_MESSAGES"]]
\* Chat's setInputValue, the two axios.post calls and console.error
setInputValue(text)       == [op |-> "setInputValue", text |-> text]
postUpload                == [op |-> "postUpload"]
postQuery(body)           == [op |-> "postQuery", body |-> body]
consoleError              == [op |-> "consoleError"]

DispatchOps ==
    {"setState", "setUploadId", "addMessage", "setProcessing", "clearMessages"}

\* the effect of one call on the world w = reducer state + field + network
Apply(w, c, clock) ==
    CASE c.op \in DispatchOps ->
           [w EXCEPT !.state = appReducer(w.state, c.action, clock)]
      [] c.op = "setInputValue" -> [w EXCEPT !.inputValue = c.text]
      [] c.op = "postUpload"    -> [w EXCEPT !.uploads = w.uploads + 1]
      [] c.op = "postQuery"     -> [w EXCEPT !.queries = Append(w.queries, c.body)]
      [] OTHER                  -> w

\* run a handler's calls in program order
RECURSIVE Run(_, _, _)
Run(w, calls, clock) ==
    IF calls = <<>> THEN w
    ELSE Run(Apply(w, Head(calls), clock), Tail(calls), clock)

OpNames(calls) == [i \in 1..Len(calls) |-> calls[i].op]

World ==
    [state |-> [appState |-> appState, uploadId |-> uploadId,
                messages |-> messages, isProcessing |-> isProcessing],
     inputValue |-> inputValue, uploads |-> uploads, queries |-> queries]

\* one handler (or continuation after an await) runs to its next await
HandleFrom(w0, handler, input, calls) ==
    LET w == Run(w0, calls, now)
    IN  /\ appState'     = w.state.appState
        /\ uploadId'     = w.state.uploadId
        /\ messages'     = w.state.messages
        /\ isProcessing' = w.state.isProcessing
        /\ inputValue'   = w.inputValue
        /\ uploads'      = w.uploads
        /\ queries'      = w.queries
        /\ last'         = [handler |-> handler, input |-> input,
                            calls |-> OpNames(calls)]
        /\ UNCHANGED now

Handle(handler, input, calls) == HandleFrom(World, handler, input, calls)

Init ==
    /\ appState     = initialState.appState
    /\ uploadId     = initialState.uploadId
    /\ messages     = initialState.messages
    /\ isProcessing = initialState.isProcessing
    /\ inputValue   = <<>>
    /\ uploads      = 0
    /\ queries      = <<>>
    /\ now          = 0
    /\ last         = [handler |-> "none", input |-> "", calls |-> <<>>]

(* ----------------------------- upload flow ----------------------------- *)
\* what the drop zone hands to onDrop: no accepted file, or one
AcceptedFiles == {<<>>, <<"data.csv">>}

\* FileUpload.onDrop up to its await
onDropCalls(acceptedFiles) ==
    IF acceptedFiles = <<>> THEN <<>>
    ELSE <<setState("loading"), postUpload>>

\* how POST /upload can complete: axios rejects on a network error and on a
\* non-2xx status; a 2xx resolves with the parsed body, which is null or an
\* object whose upload_id is missing, empty or an identifier
UploadResponses ==
    {[kind |-> "network_error"], [kind |-> "http_error"]}
    \cup {[kind |-> "resolved", data |-> None]}
    \cup {[kind |-> "resolved", data |-> Some([upload_id |-> id])] :
            id \in {None, Some(""), Some("u1"), Some("u2")}}

UploadRejected(r) == r.kind # "resolved"

\* onDrop entering the chat screen without storing the identifier
onDropResumeCallsChatOnly(r) ==
    IF UploadRejected(r) THEN <<consoleError, setState("upload")>>
    ELSE IF r.data = None THEN <<consoleError, setState("upload")>>
    ELSE IF TruthyString(r.data[1].upload_id)
         THEN <<setState("chat")>>
         ELSE <<>>

\* FileUpload.onDrop after its await
onDropResumeCalls(r) ==
    IF UploadRejected(r) THEN <<consoleError, setState("upload")>>
    \* response.data.upload_id on a null body throws a TypeError inside try
    ELSE IF r.data = None THEN <<consoleError, setState("upload")>>
    ELSE IF TruthyString(r.data[1].upload_id)
         THEN <<setUploadId(r.data[1].upload_id[1]), setState("chat")>>
         ELSE <<>>

\* renderCurrentView keeping the drop zone on screen while loading
MountedDropzoneWhileLoading ==
    CASE appState = "upload"  -> "FileUpload"
      [] appState = "loading" -> "FileUpload"
      [] appState = "chat"    -> "Chat"
      [] OTHER                -> "FileUpload"

\* App.renderCurrentView: which component is mounted
Mounted == CASE appState = "upload"  -> "FileUpload"
             [] appState = "loading" -> "LoadingScreen"
             [] appState = "chat"    -> "Chat"
             [] OTHER                -> "FileUpload"

\* a tag for the way the upload request completed
UploadOutcome(r) ==
    IF UploadRejected(r) THEN r.kind
    ELSE IF r.data = None THEN "null_body"
    ELSE IF r.data[1].upload_id = None THEN "no_upload_id"
    ELSE IF r.data[1].upload_id[1] = "" THEN "empty_upload_id"
    ELSE "upload_id"

OnDropOf(files) ==
    /\ Mounted = "FileUpload"
    /\ uploads < MaxUploads
    /\ Handle("onDrop", IF files = <<>> THEN "no_file" ELSE "file",
              onDropCalls(files))

OnDrop == \E files \in AcceptedFiles : OnDropOf(files)

\* the request completes and onDrop resumes
UploadResponseOf(r) ==
    /\ uploads > 0
    /\ HandleFrom([World EXCEPT !.uploads = uploads - 1],
                  "onDropResume", UploadOutcome(r), onDropResumeCalls(r))

UploadResponse == \E r \in UploadResponses : UploadResponseOf(r)

(* ------------------------------ query flow ----------------------------- *)
\* the text of the catch branch's assistant message
ApologyText ==
    <<"Sorry, I encountered an error processing your request. Please try again.">>

TableText == <<"t", "a", "b", "l", "e">>

\* result rows: a row lists its properties in key order
Row1 == <<[key |-> "region", type |-> "string", value |-> "N"],
          [key |-> "total",  type |-> "number", value |-> "1"]>>

\* bodies of a 2xx answer of POST /query, within the documented schema:
\* natural_language_answer, optional query_result_data, optional
\* visualization_suggestion {chart_type?, x_axis?, y_axis?}
QueryBody(d, v) ==
    [natural_language_answer  |-> <<"answer">>,
     query_result_data        |-> d,
     visualization_suggestion |-> v]

NoHint  == [chart_type |-> None, x_axis |-> None, y_axis |-> None]
BarHint == [chart_type |-> Some(<<"B", "a", "r">>),
            x_axis     |-> Some(<<"region">>),
            y_axis     |-> Some(<<"total">>)]

QueryBodies ==
    { QueryBody(None, None),
      QueryBody(Some(<<Row1>>), None),
      QueryBody(None, Some(BarHint)),
      QueryBody(Some(<<>>), Some(NoHint)),
      QueryBody(Some(<<Row1>>), Some(BarHint)) }

\* how POST /query can complete: axios rejects on a network error and on a
\* non-2xx status, and resolves with the body otherwise
QueryResponses ==
    {[kind |-> "network_error"], [kind |-> "http_error"]}
    \cup {[kind |-> "resolved", data |-> b] : b \in QueryBodies}

UserMessage(question) ==
    [type |-> "user", content |-> question, visualization |-> None]

\* handleSubmit without the isProcessing test in its guard
handleSubmitCallsNoBusyCheck(input, id, processing) ==
    IF Trim(input) = <<>> \/ ~TruthyString(id) THEN <<>>
    ELSE << setInputValue(<<>>), setProcessing(TRUE),
            addMessage(UserMessage(Trim(input))),
            postQuery([question |-> Trim(input), upload_id |-> id[1]]) >>

\* handleSubmit testing isProcessing only after the user message is appended
handleSubmitCallsLateBusyCheck(input, id, processing) ==
    IF Trim(input) = <<>> \/ ~TruthyString(id) THEN <<>>
    ELSE IF processing
    THEN << setInputValue(<<>>), addMessage(UserMessage(Trim(input))) >>
    ELSE << setInputValue(<<>>), setProcessing(TRUE),
            addMessage(UserMessage(Trim(input))),
            postQuery([question |-> Trim(input), upload_id |-> id[1]]) >>

\* handleSubmit without the uploadId test in its guard (a null id is sent as "")
handleSubmitCallsNoIdCheck(input, id, processing) ==
    IF Trim(input) = <<>> \/ processing THEN <<>>
    ELSE << setInputValue(<<>>), setProcessing(TRUE),
            addMessage(UserMessage(Trim(input))),
            postQuery([question  |-> Trim(input),
                       upload_id |-> IF id = None THEN "" ELSE id[1]]) >>

\* handleSubmit appending the user message before it sets the busy flag
handleSubmitCallsAppendFirst(input, id, processing) ==
    IF Trim(input) = <<>> \/ ~TruthyString(id) \/ processing THEN <<>>
    ELSE << setInputValue(<<>>),
            addMessage(UserMessage(Trim(input))),
            setProcessing(TRUE),
            postQuery([question |-> Trim(input), upload_id |-> id[1]]) >>

\* Chat.handleSubmit up to its await; the arguments are the values the
\* handler's closure holds
handleSubmitCalls(input, id, processing) ==
    IF Trim(input) = <<>> \/ ~TruthyString(id) \/ processing THEN <<>>
    ELSE LET question == Trim(input)
         IN  << setInputValue(<<>>),
                setProcessing(TRUE),
                addMessage(UserMessage(question)),
                postQuery([question |-> question, upload_id |-> id[1]]) >>

\* visualization built whenever a suggestion is present, result set or not
visualizationOfHintOnly(query_result_data, visualization_suggestion) ==
    IF TruthyObject(visualization_suggestion)
    THEN Some([type |-> TableText,
               data |-> IF query_result_data = None THEN <<>>
                        ELSE query_result_data[1],
               suggestion |-> <<"chart">>])
    ELSE None

\* the visualization property of the assistant message
visualizationOf(query_result_data, visualization_suggestion) ==
    IF TruthyObject(query_result_data) /\ TruthyObject(visualization_suggestion)
    THEN LET s == visualization_suggestion[1]
             lowered == IF s.chart_type = None THEN None
                        ELSE Some(ToLowerCase(s.chart_type[1]))
         IN  Some([type |-> IF TruthyText(lowered) THEN lowered[1] ELSE TableText,
                   data |-> query_result_data[1],
                   suggestion |->
                       Interpolate(s.chart_type) \o <<" chart showing ">>
                       \o Interpolate(s.x_axis) \o <<" vs ">>
                       \o (IF TruthyText(s.y_axis) THEN s.y_axis[1]
                           ELSE <<"values">>)])
    ELSE None

AiMessage(content, visualization) ==
    [type |-> "ai", content |-> content, visualization |-> visualization]

\* handleSubmit clearing the busy flag at the end of try instead of in finally
handleSubmitResumeCallsNoFinally(r) ==
    IF r.kind = "resolved"
    THEN << addMessage(AiMessage(r.data.natural_language_answer, None)),
            setProcessing(FALSE) >>
    ELSE << consoleError, addMessage(AiMessage(ApologyText, None)) >>

\* handleSubmit whose catch branch only logs
handleSubmitResumeCallsSilentCatch(r) ==
    IF r.kind = "resolved"
    THEN << addMessage(AiMessage(r.data.natural_language_answer, None)),
            setProcessing(FALSE) >>
    ELSE << consoleError, setProcessing(FALSE) >>

\* Chat.handleSubmit after its await: try, catch and finally
handleSubmitResumeCalls(r) ==
    IF r.kind = "resolved"
    THEN << addMessage(AiMessage(r.data.natural_language_answer,
                                 visualizationOf(r.data.query_result_data,
                                                 r.data.visualization_suggestion))),
            setProcessing(FALSE) >>
    ELSE << consoleError,
            addMessage(AiMessage(ApologyText, None)),
            setProcessing(FALSE) >>

\* the question field's onChange
OnChangeOf(text) ==
    /\ Mounted = "Chat"
    /\ Handle("onChange", "", <<setInputValue(text)>>)

OnChange == \E text \in InputTexts : OnChangeOf(text)

\* the form's onSubmit; the log is explored up to MaxMessages, with room
\* kept for the answers of the requests in flight
HandleSubmit ==
    /\ Mounted = "Chat"
    /\ LET calls == handleSubmitCalls(inputValue, uploadId, isProcessing)
       IN  /\ calls # <<>> =>
                /\ Len(queries) < MaxQueries
                /\ Len(messages) + Len(queries) + 2 <= MaxMessages
           /\ Handle("handleSubmit", "", calls)

RemoveAt(s, i) == SubSeq(s, 1, i - 1) \o SubSeq(s, i + 1, Len(s))

\* request i completes with r and handleSubmit resumes
QueryResponseOf(i, r) ==
    /\ i \in 1..Len(queries)
    /\ HandleFrom([World EXCEPT !.queries = RemoveAt(queries, i)],
                  "handleSubmitResume",
                  IF r.kind = "resolved" THEN "resolved" ELSE "rejected",
                  handleSubmitResumeCalls(r))

QueryResponse ==
    \E i \in 1..Len(queries) : \E r \in QueryResponses : QueryResponseOf(i, r)

\* the clock advances between events
Tick ==
    /\ now < MaxClock
    /\ now' = now + 1
    /\ UNCHANGED <<appState, uploadId, messages, isProcessing, inputValue,
                   uploads, queries, last>>

\* the context's clearMessages mutator, which no component of the client calls
ClearMessages == Handle("clearMessages", "", <<clearMessages>>)

Next == OnDrop \/ UploadResponse \/ OnChange \/ HandleSubmit \/ QueryResponse \/ Tick

Spec == Init /\ [][Next]_vars

\* the client together with a consumer that calls clearMessages
NextWithClear == Next \/ ClearMessages

SpecWithClear == Init /\ [][NextWithClear]_vars

(* ------------------------- rendering a message ------------------------- *)
BarText  == <<"b", "a", "r">>
LineText == <<"l", "i", "n", "e">>
PieText  == <<"p", "i", "e">>

\* Object.keys(row): the property names in insertion order
ObjectKeys(row) == [i \in 1..Len(row) |-> row[i].key]

\* keys[i] with JS indexing from 0: undefined past the end
KeyAt(keys, i) == IF i + 1 <= Len(keys) THEN Some(keys[i + 1]) ELSE None

\* a || b on string-or-undefined values
OrElse(a, b) == IF TruthyString(a) THEN a ELSE b

\* Visualization.inferKeys
inferKeys(data) ==
    IF Len(data) > 0
    THEN LET keys == ObjectKeys(data[1])
         IN  [inferredXAxisKey   |-> KeyAt(keys, 0),
              inferredYAxisKey   |-> KeyAt(keys, 1),
              inferredPieKey     |-> KeyAt(keys, 0),
              inferredPieNameKey |-> KeyAt(keys, 1)]
    ELSE [inferredXAxisKey   |-> Some("name"),
          inferredYAxisKey   |-> Some("value"),
          inferredPieKey     |-> Some("value"),
          inferredPieNameKey |-> Some("name")]

\* the Visualization component: what it draws for its props.  branch is the
\* case of renderChart taken; xKey/yKey are the dataKeys of the bar and line
\* charts, valueKey/labelKey the dataKey and the label key of the pie.
Visualization(type, data, suggestion, xAxisKey, yAxisKey, pieKey, pieNameKey) ==
    IF Len(data) = 0
    THEN [branch |-> "no_data", xKey |-> None, yKey |-> None,
          valueKey |-> None, labelKey |-> None, columns |-> <<>>]
    ELSE LET inferred == inferKeys(data)
             resolvedXAxisKey   == OrElse(xAxisKey, inferred.inferredXAxisKey)
             resolvedYAxisKey   == OrElse(yAxisKey, inferred.inferredYAxisKey)
             resolvedPieKey     == OrElse(pieKey, inferred.inferredPieKey)
             resolvedPieNameKey == OrElse(pieNameKey, inferred.inferredPieNameKey)
         IN  [branch   |-> CASE type = BarText   -> "bar"
                             [] type = LineText  -> "line"
                             [] type = PieText   -> "pie"
                             [] type = TableText -> "table"
                             [] OTHER            -> "unsupported",
              xKey     |-> resolvedXAxisKey,
              yKey     |-> resolvedYAxisKey,
              valueKey |-> resolvedPieKey,
              labelKey |-> resolvedPieNameKey,
              columns  |-> IF type = TableText THEN ObjectKeys(data[1]) ELSE <<>>]

\* Chat's message list: a message with a visualization renders the
\* component with type, data and suggestion, and no key props
RenderOf(message) ==
    IF TruthyObject(message.visualization)
    THEN LET v == message.visualization[1]
         IN  Some(Visualization(v.type, v.data, v.suggestion,
                                None, None, None, None))
    ELSE None

(* --------------- answers of the backend put on the screen -------------- *)
Field(k, t, v) == [key |-> k, type |-> t, value |-> v]

\* result sets: rows of the same shape, properties in key order
ResultSets ==
    { <<>>,
      << <<Field("region", "string", "N"), Field("total", "number", "1")>>,
         <<Field("region", "string", "S"), Field("total", "number", "2")>> >>,
      << <<Field("total", "number", "1"), Field("region", "string", "N")>> >>,
      << <<Field("id", "number", "7"), Field("region", "string", "N"),
           Field("total", "number", "1")>> >>,
      << <<Field("total", "number", "1")>> >>,
      << <<Field("category", "string", "A"), Field("sales", "string", "100")>>,
         <<Field("category", "string", "B"), Field("sales", "string", "bad")>> >>,
      << <<Field("count", "number", "3"), Field("total", "number", "1")>> >> }

\* chart_type strings of the backend
ChartTypes ==
    { <<>>,
      <<"b", "a", "r">>, <<"B", "A", "R">>, <<"B", "a", "r">>,
      <<"L", "i", "n", "e">>, <<"l", "i", "n", "e">>,
      <<"P", "i", "e">>, <<"P", "I", "E">>,
      <<"t", "a", "b", "l", "e">>,
      <<"H", "o", "r", "i", "z", "o", "n", "t", "a", "l", " ", "B", "a", "r">>,
      <<"B", "a", "r", " ", "C", "h", "a", "r", "t">>,
      <<"a", "r", "e", "a">> }

Hints ==
    { [chart_type |-> c, x_axis |-> x, y_axis |-> y] :
        c \in {None} \cup {Some(t) : t \in ChartTypes},
        x \in {None, Some(<<"region">>)},
        y \in {None, Some(<<"total">>)} }

\* 2xx answers with a result set and a suggestion
RenderResponses ==
    { [kind |-> "resolved", data |-> QueryBody(Some(d), Some(h))] :
        d \in ResultSets, h \in Hints }

\* the state the client is in after the upload of a file was answered with
\* the identifier u1 and the question q was typed and submitted
AwaitingAnswer ==
    LET w0 == [state |-> initialState, inputValue |-> <<>>,
               uploads |-> 0, queries |-> <<>>]
        w1 == Run(w0, onDropCalls(<<"data.csv">>), 0)
        w2 == Run([w1 EXCEPT !.uploads = 0],
                  onDropResumeCalls([kind |-> "resolved",
                                     data |-> Some([upload_id |-> Some("u1")])]),
                  0)
        w3 == Run(w2, <<setInputValue(<<"q">>)>>, 0)
    IN  Run(w3, handleSubmitCalls(w3.inputValue, w3.state.uploadId,
                                  w3.state.isProcessing), 0)

InitRender ==
    /\ appState     = AwaitingAnswer.state.appState
    /\ uploadId     = AwaitingAnswer.state.uploadId
    /\ messages     = AwaitingAnswer.state.messages
    /\ isProcessing = AwaitingAnswer.state.isProcessing
    /\ inputValue   = AwaitingAnswer.inputValue
    /\ uploads      = AwaitingAnswer.uploads
    /\ queries      = AwaitingAnswer.queries
    /\ now          = 0
    /\ last         = [handler |-> "handleSubmit", input |-> "",
                        calls |-> OpNames(handleSubmitCalls(<<"q">>, Some("u1"),
                                                            FALSE))]

\* the answer arrives and the assistant message is appended and rendered
AnswerOf(r) == QueryResponseOf(1, r)

NextRender == \E r \in RenderResponses : AnswerOf(r)

\* the query flow from a submitted question on, over the answers above
SpecRender == InitRender /\ [][NextRender]_vars

(* =============================== claims ================================ *)
IsPrefix(s, t) == Len(s) <= Len(t) /\ SubSeq(t, 1, Len(s)) = s

\* position of the first call named op in a handler's calls, 0 when absent
RECURSIVE IndexOf(_, _)
IndexOf(op, calls) ==
    IF calls = <<>> THEN 0
    ELSE IF Head(calls) = op THEN 1
    ELSE LET rest == IndexOf(op, Tail(calls))
         IN  IF rest = 0 THEN 0 ELSE rest + 1

CalledBefore(a, b, calls) ==
    /\ IndexOf(a, calls) > 0
    /\ IndexOf(b, calls) > 0
    /\ IndexOf(a, calls) < IndexOf(b, calls)

NonEmptyInputs == {t \in InputTexts : Trim(t) # <<>>}

SubmitAccepted == last.handler = "handleSubmit" /\ last.calls # <<>>
SubmitRejected == last.handler = "handleSubmit" /\ last.calls = <<>>
QueryFailed    == last.handler = "handleSubmitResume" /\ last.input # "resolved"
QuerySucceeded == last.handler = "handleSubmitResume" /\ last.input = "resolved"

\* C1: in every reachable state the number of POST /query requests issued
\* and not yet completed is 0 or 1.
C1_AtMostOneQueryOutstanding == Len(queries) <= 1

\* a submit was tried, and turned down, while a query was outstanding
C1_Witness == Len(queries) = 1 /\ SubmitRejected /\ Len(messages) = 3

\* C2: a submit while isProcessing is true changes neither the message log,
\* uploadId, the screen nor isProcessing, and issues no query request.
C2_SubmitWhileBusyIsNoOp ==
    [][(isProcessing /\ HandleSubmit) =>
          UNCHANGED <<messages, uploadId, appState, isProcessing, queries>>]_vars

\* a submit of a non-empty question with a session id was turned down
\* because the busy flag was set
C2_Witness ==
    /\ SubmitRejected
    /\ isProcessing
    /\ Trim(inputValue) # <<>>
    /\ TruthyString(uploadId)

\* C3: when a query's request resolves or rejects isProcessing becomes false;
\* isProcessing is never true with no query outstanding; and after the
\* completion a submit of any non-empty question is accepted.
C3_BusyClearedOnCompletion ==
    /\ [](isProcessing => Len(queries) > 0)
    /\ [][QueryResponse =>
             /\ ~isProcessing'
             /\ \A t \in NonEmptyInputs :
                   handleSubmitCalls(t, uploadId', isProcessing') # <<>>]_vars

\* a second query was accepted after the first one failed
C3_Witness ==
    /\ SubmitAccepted
    /\ isProcessing
    /\ Len(messages) = 3
    /\ messages[2].content = ApologyText

\* C4: the screen changes only upload -> loading (a drop of a file),
\* loading -> chat (the upload succeeded) and loading -> upload (the
\* upload failed); from chat it never changes.
C4_ScreenTransitions ==
    [][appState' # appState =>
          \/ /\ appState = "upload" /\ appState' = "loading"
             /\ OnDropOf(<<"data.csv">>)
          \/ /\ appState = "loading" /\ appState' = "chat"
             /\ \E r \in UploadResponses :
                   UploadOutcome(r) = "upload_id" /\ UploadResponseOf(r)
          \/ /\ appState = "loading" /\ appState' = "upload"
             /\ \E r \in UploadResponses :
                   UploadOutcome(r) # "upload_id" /\ UploadResponseOf(r)]_vars

\* the screen is still chat after a submit and its answer
C4_Witness ==
    /\ appState = "chat"
    /\ QuerySucceeded
    /\ Len(messages) = 2

UploadFailureOutcomes ==
    {"network_error", "http_error", "null_body", "no_upload_id", "empty_upload_id"}

\* C5: after an upload request fails (network error, non-2xx status, or a
\* 2xx body without a session identifier) the screen is upload and no new
\* upload request was issued.
C5_UploadFailureRevertsToUpload ==
    (last.handler = "onDropResume" /\ last.input \in UploadFailureOutcomes) =>
        /\ appState = "upload"
        /\ IndexOf("postUpload", last.calls) = 0

\* C6: every POST /query request carries the non-null uploadId as upload_id,
\* and handleSubmit with a null (or empty) uploadId makes no call at all.
C6_QueryCarriesUploadId ==
    /\ \A i \in 1..Len(queries) :
          /\ uploadId # None
          /\ queries[i].upload_id = uploadId[1]
          /\ queries[i].upload_id # ""
    /\ \A t \in InputTexts : \A p \in BOOLEAN : \A id \in {None, Some("")} :
          handleSubmitCalls(t, id, p) = <<>>

\* a request has just been issued, carrying the stored identifier
C6_Witness ==
    /\ SubmitAccepted
    /\ Len(queries) = 1
    /\ queries[1].upload_id = "u2"
    /\ uploadId = Some("u2")

\* C7 as claimed: an accepted submit appends the user message, then sets the
\* busy flag, then issues the request.
C7_AppendThenBusyThenPost ==
    SubmitAccepted =>
        /\ CalledBefore("addMessage", "setProcessing", last.calls)
        /\ CalledBefore("setProcessing", "postQuery", last.calls)

\* C7 as amended: an accepted submit sets the busy flag, then appends the
\* user message, then issues the request; when the handler reaches its
\* await the flag is set, the user message ends the log and the request is
\* in flight.
C7_BusyThenAppendThenPost ==
    SubmitAccepted =>
        /\ CalledBefore("setProcessing", "addMessage", last.calls)
        /\ CalledBefore("addMessage", "postQuery", last.calls)
        /\ isProcessing
        /\ messages # <<>>
        /\ messages[Len(messages)].type = "user"
        /\ queries # <<>>
        /\ messages[Len(messages)].content = queries[Len(queries)].question

\* a padded question was accepted and sent trimmed
C7_Witness ==
    /\ SubmitAccepted
    /\ queries = << [question |-> <<"q">>, upload_id |-> "u1"] >>
    /\ Len(messages) = 1

\* C8: a resolved query appends exactly one assistant message with the
\* answer as content; the message has a visualization exactly when the
\* response has both query_result_data and visualization_suggestion.
C8_SuccessAppendsAnswer ==
    [][\A i \in 1..Len(queries) : \A r \in QueryResponses :
          (r.kind = "resolved" /\ QueryResponseOf(i, r)) =>
             /\ Len(messages') = Len(messages) + 1
             /\ IsPrefix(messages, messages')
             /\ messages'[Len(messages')].type = "ai"
             /\ messages'[Len(messages')].content = r.data.natural_language_answer
             /\ (messages'[Len(messages')].visualization # None)
                  <=> (/\ r.data.query_result_data # None
                       /\ r.data.visualization_suggestion # None)]_vars

\* an answer with a chart spec was appended
C8_Witness ==
    /\ QuerySucceeded
    /\ messages[Len(messages)].visualization # None
    /\ messages[Len(messages)].visualization[1].data # <<>>

\* C9: a rejected query appends exactly one assistant message, the apology
\* without a visualization, leaves the earlier messages as they were, and
\* leaves the chat ready: a submit of any non-empty question then makes the
\* calls of an accepted submit, a POST /query among them.
C9_FailureAppendsApology ==
    [][\A i \in 1..Len(queries) : \A r \in QueryResponses :
          (r.kind # "resolved" /\ QueryResponseOf(i, r)) =>
             /\ Len(messages') = Len(messages) + 1
             /\ IsPrefix(messages, messages')
             /\ messages'[Len(messages')].type = "ai"
             /\ messages'[Len(messages')].content = ApologyText
             /\ messages'[Len(messages')].visualization = None
             /\ \A t \in NonEmptyInputs :
                   IndexOf("postQuery",
                           OpNames(handleSubmitCalls(t, uploadId', isProcessing')))
                     > 0]_vars

\* the apology has just been appended after the user's question
C9_Witness ==
    /\ QueryFailed
    /\ Len(messages) = 2
    /\ messages[1].type = "user"
    /\ messages[2].content = ApologyText
    /\ ~isProcessing

\* C10: every step that is not clearMessages keeps the log as a prefix of
\* the new log, and a non-empty log becomes empty only by clearMessages.
C10_AppendOnly ==
    [][/\ IsPrefix(messages, messages') \/ ClearMessages
       /\ (messages # <<>> /\ messages' = <<>>) => ClearMessages]_vars

\* the log was cleared while a query was outstanding, and its answer, a new
\* question and that question's answer were then appended in this order
C10_Witness ==
    /\ QuerySucceeded
    /\ Len(messages) = 3
    /\ messages[1].type = "ai"

\* C11: no two messages of the log have the same id, also when Date.now()
\* has not advanced between the two appends.
C11_UniqueMessageIds ==
    \A i \in 1..Len(messages) : \A j \in 1..Len(messages) :
        i # j => messages[i].id # messages[j].id

\* does text s contain text sub as a substring
Contains(s, sub) ==
    \E i \in 0..(Len(s) - Len(sub)) : SubSeq(s, i + 1, i + Len(sub)) = sub

\* the chart kind the claim gives to a chart_type of the backend
ClaimedKind(chart_type) ==
    IF chart_type = None THEN TableText
    ELSE LET lowered == ToLowerCase(chart_type[1])
         IN  IF Contains(lowered, BarText) THEN BarText
             ELSE IF Contains(lowered, LineText) THEN LineText
             ELSE IF Contains(lowered, PieText) THEN PieText
             ELSE TableText

ChartKinds == {BarText, LineText, PieText, TableText}

LastOf(log) == log[Len(log)]

\* C12: the kind stored in the assistant message is bar, line or pie when
\* the lower-cased chart_type contains that word and table otherwise, it
\* is always one of the four kinds, and the renderer takes that branch.
C12_ChartTypeNormalized ==
    [][\A r \in RenderResponses :
          AnswerOf(r) =>
             LET hint == r.data.visualization_suggestion[1]
                 m    == LastOf(messages')
             IN  /\ m.visualization # None
                 /\ m.visualization[1].type = ClaimedKind(hint.chart_type)
                 /\ m.visualization[1].type \in ChartKinds
                 /\ RenderOf(m)[1].branch \in {"bar", "line", "pie", "table",
                                                "no_data"}]_vars

\* the first key of the row whose value is a string, if any
RECURSIVE FirstTextualKey(_)
FirstTextualKey(row) ==
    IF row = <<>> THEN None
    ELSE IF Head(row).type = "string" THEN Some(Head(row).key)
    ELSE FirstTextualKey(Tail(row))

\* the x-axis key the claim resolves for non-empty data
ClaimedXKey(data, x_axis) ==
    IF TruthyText(x_axis) THEN Some(x_axis[1][1])
    ELSE IF FirstTextualKey(data[1]) # None THEN FirstTextualKey(data[1])
    ELSE KeyAt(ObjectKeys(data[1]), 0)

\* C13: for non-empty data the x-axis key of the chart is the suggestion's
\* x_axis when given, else the first key whose first-row value is textual,
\* else the first key.
C13_XAxisKeyResolution ==
    [][\A r \in RenderResponses :
          (AnswerOf(r) /\ r.data.query_result_data[1] # <<>>) =>
             RenderOf(LastOf(messages'))[1].xKey =
                ClaimedXKey(r.data.query_result_data[1],
                            r.data.visualization_suggestion[1].x_axis)]_vars

\* does the value parse as a finite number
NumericLike(field) == field.type = "number" \/ field.value \in {"1", "2", "100"}

HasKey(data, k) == \E i \in 1..Len(data[1]) : data[1][i].key = k

\* the keys other than x that hold a numeric-like value in some row
RECURSIVE NumericKeys(_, _, _)
NumericKeys(data, x, i) ==
    IF i > Len(data[1]) THEN <<>>
    ELSE LET k == data[1][i].key
             rest == NumericKeys(data, x, i + 1)
         IN  IF Some(k) # x /\ \E n \in 1..Len(data) : NumericLike(data[n][i])
             THEN <<k>> \o rest ELSE rest

\* the first y-axis key the claim resolves
ClaimedFirstYKey(data, x, y_axis) ==
    IF TruthyText(y_axis)
    THEN IF HasKey(data, y_axis[1][1]) THEN Some(y_axis[1][1]) ELSE None
    ELSE KeyAt(NumericKeys(data, x, 1), 0)

\* C14: in the pie branch the label key is the resolved x-axis key and the
\* value key is the first resolved y-axis key, the two differ when the
\* records have two keys or more, and with x_axis region and y_axis total
\* over data with both fields they are region and total.
C14_PieLabelAndValueKeys ==
    [][\A r \in RenderResponses :
          (AnswerOf(r) /\ RenderOf(LastOf(messages'))[1].branch = "pie") =>
             LET data == r.data.query_result_data[1]
                 hint == r.data.visualization_suggestion[1]
                 pie  == RenderOf(LastOf(messages'))[1]
                 x    == ClaimedXKey(data, hint.x_axis)
             IN  /\ pie.labelKey = x
                 /\ pie.valueKey = ClaimedFirstYKey(data, x, hint.y_axis)
                 /\ Len(data[1]) >= 2 => pie.labelKey # pie.valueKey]_vars

\* C15: whenever the screen is chat uploadId holds the identifier a
\* successful upload returned: the upload's continuation stores it before
\* it sets the screen, and no later step changes it.
C15_ChatHasUploadId ==
    /\ [](appState = "chat" => TruthyString(uploadId))
    /\ [][/\ \A r \in UploadResponses :
              (UploadResponseOf(r) /\ appState' = "chat") =>
                 /\ UploadOutcome(r) = "upload_id"
                 /\ uploadId' = r.data[1].upload_id
                 /\ CalledBefore("setUploadId", "setState", last'.calls)
          /\ appState = "chat" => uploadId' = uploadId]_vars

\* the upload has just succeeded and the chat screen holds its identifier
C15_Witness ==
    /\ appState = "chat"
    /\ last.handler = "onDropResume"
    /\ uploadId = Some("u1")

\* C16: without clearMessages the log reads user, ai, user, ai, ...: message
\* i is a user message for odd i and an ai message for even i, and the
\* user messages outnumber the ai messages by the number of queries
\* outstanding, which is 0 or 1.
C16_LogAlternates ==
    /\ \A i \in 1..Len(messages) :
          messages[i].type = IF i % 2 = 1 THEN "user" ELSE "ai"
    /\ Len(queries) \in {0, 1}
    /\ Cardinality({i \in 1..Len(messages) : messages[i].type = "user"})
         = Cardinality({i \in 1..Len(messages) : messages[i].type = "ai"})
           + Len(queries)

\* a second question is outstanding after a first exchange
C16_Witness ==
    /\ Len(messages) = 3
    /\ Len(queries) = 1
    /\ messages[2].type = "ai"
    /\ messages[3].type = "user"
====
